---- MODULE Spec2Model ----
(***************************************************************************)
(* Model of app.py (Parardha's Insight Engine): the chat turn of the       *)
(* Streamlit script, the memoised load_models, index_document with its     *)
(* temporary directory, and the per-session state (messages,               *)
(* vector_index).  Each session runs its script top to bottom on every     *)
(* submitted question; sessions share the st.cache_resource entry of       *)
(* load_models and the ai_model directory on disk.                         *)
(***************************************************************************)
EXTENDS Naturals, Sequences, FiniteSets

VARIABLES
    messages,       \* st.session_state.messages, per session
    vector_index,   \* st.session_state.vector_index, per session ("none" = key absent)
    uploaded_file,  \* value of the sidebar file_uploader, per session
    pc,             \* position of each session's script run
    prompt,         \* the question of the running turn
    result,         \* (llm, embed_model, error_msg) of line 164
    cache,          \* the st.cache_resource entry of load_models
    lock,           \* session computing the cache entry, or "none"
    local,          \* locals of the load_models body, per caller
    modelDir,       \* the ai_model directory beside the script
    net,            \* the model hub is reachable
    canLoad,        \* a complete snapshot can be loaded by HuggingFaceEmbedding
    tmpfs,          \* temporary directories on disk
    nextId,         \* identities handed to constructed handles
    fsOps,          \* number of snapshot downloads and rmtree calls so far
    turns,          \* number of questions submitted so far, all sessions
    log             \* per session: the record of the running turn (history)

vars == <<messages, vector_index, uploaded_file, pc, prompt, result, cache, lock,
          local, modelDir, net, canLoad, tmpfs, nextId, fsOps, turns, log>>

\* ---------------------------------------------------------------- bounds
MaxTurns == 3

Sessions == {"s1", "s2"}
Files == {"a.pdf", "b.pdf"}
NoFile == "nofile"
NoIndex == "none"

\* ---------------------------------------------------------------- data
Greeting == [role |-> "assistant", q |-> 0, doc |-> "greeting"]

UserMsg(q) == [role |-> "user", q |-> q, doc |-> "-"]

AssistantMsg(q, idx) == [role |-> "assistant", q |-> q, doc |-> idx]

SnapshotFiles == <<"config.json", "model.safetensors">>

AllSnapshotFiles == {SnapshotFiles[i] : i \in 1..Len(SnapshotFiles)}

Absent == [exists |-> FALSE, files |-> {}]

EmptyCache == [set |-> FALSE, llm |-> 0, embed |-> 0, error |-> ""]

NoResult == [llm |-> 0, embed |-> 0, error |-> ""]

NoLocal == [llm |-> 0, embed |-> 0, error |-> "", todo |-> 0]

NewLog == [n |-> 0, calls |-> {}, ops |-> <<>>, ranBody |-> FALSE, envOk |-> FALSE,
           dir0 |-> FALSE, msgs0 |-> <<>>, idx0 |-> NoIndex, idxQ |-> NoIndex,
           outcome |-> "none", past |-> {}, indexCalls |-> 0, indexOk |-> 0,
           hitAfterOk |-> FALSE]

EnvHealthy == net /\ canLoad

\* ---------------------------------------------------------------- initial state
Init ==
    /\ messages = [s \in Sessions |-> <<Greeting>>]
    /\ vector_index = [s \in Sessions |-> NoIndex]
    /\ uploaded_file = [s \in Sessions |-> NoFile]
    /\ pc = [s \in Sessions |-> "idle"]
    /\ prompt = [s \in Sessions |-> 0]
    /\ result = [s \in Sessions |-> NoResult]
    /\ cache = EmptyCache
    /\ lock = "none"
    /\ local = [s \in Sessions |-> NoLocal]
    /\ modelDir \in {Absent,
                     [exists |-> TRUE, files |-> {"config.json"}],
                     [exists |-> TRUE, files |-> AllSnapshotFiles]}
    /\ net \in BOOLEAN
    /\ canLoad \in BOOLEAN
    /\ tmpfs = {}
    /\ nextId = 0
    /\ fsOps = 0
    /\ turns = 0
    /\ log = [s \in Sessions |-> NewLog]

\* ---------------------------------------------------------------- environment
\* Positions at or inside the load_models call of line 164, the only code
\* that observes the hub and the loader.
LoadModelsPcs == {"provision", "groq", "exists", "dl1", "load1", "rmtree", "dl2", "load2", "ret"}

\* The hub becomes (un)reachable, or loading becomes (im)possible, while some
\* session is at or inside load_models.  envOk of a session records that the
\* environment was healthy during its whole load_models call so far.
EnvChange ==
    /\ \E s \in Sessions : pc[s] \in LoadModelsPcs
    /\ \/ net' = ~net /\ canLoad' = canLoad
       \/ canLoad' = ~canLoad /\ net' = net
    /\ log' = [s \in Sessions |-> [log[s] EXCEPT !.envOk = @ /\ net' /\ canLoad']]
    /\ UNCHANGED <<messages, vector_index, uploaded_file, pc, prompt, result, cache,
                   lock, local, modelDir, tmpfs, nextId, fsOps, turns>>

\* ---------------------------------------------------------------- the chat turn
\* Ends the script run of this turn with the given outcome; a turn that ends
\* answered or query_failed has called the query engine (line 180).
EndTurn(s, outcome) ==
    /\ pc' = [pc EXCEPT ![s] = "idle"]
    /\ log' = [log EXCEPT ![s].outcome = outcome,
                          ![s].calls = IF outcome \in {"answered", "query_failed"}
                                         THEN @ \cup {"query"} ELSE @]

\* Lines 81 and 150-154: a question arrives with the sidebar holding file f
\* (or none) and is appended to the history.
Submit(s, f) ==
    /\ pc[s] = "idle"
    /\ turns < MaxTurns
    /\ uploaded_file' = [uploaded_file EXCEPT ![s] = f]
    /\ turns' = turns + 1
    /\ prompt' = [prompt EXCEPT ![s] = log[s].n + 1]
    /\ messages' = [messages EXCEPT ![s] = Append(@, UserMsg(log[s].n + 1))]
    /\ pc' = [pc EXCEPT ![s] = "validate"]
    /\ log' = [log EXCEPT ![s] =
                 [@ EXCEPT !.n = @ + 1, !.calls = {}, !.ops = <<>>, !.ranBody = FALSE,
                           !.envOk = FALSE, !.dir0 = FALSE,
                           !.msgs0 = messages[s], !.idx0 = vector_index[s],
                           !.idxQ = NoIndex, !.outcome = "running",
                           !.past = @ \cup (IF log[s].outcome = "none" THEN {}
                                            ELSE {log[s].outcome}),
                           !.hitAfterOk = FALSE]]
    /\ UNCHANGED <<vector_index, result, cache, lock, local, modelDir,
                   net, canLoad, tmpfs, nextId, fsOps>>

\* Lines 157-159: no file uploaded: warn and st.stop().
Validate_NoStop(s) ==
    /\ pc[s] = "validate"
    /\ pc' = [pc EXCEPT ![s] = "provision"]
    /\ UNCHANGED <<messages, vector_index, uploaded_file, prompt, result, cache, lock,
                   local, modelDir, net, canLoad, tmpfs, nextId, fsOps, turns, log>>

Validate(s) ==
    /\ pc[s] = "validate"
    /\ IF uploaded_file[s] = NoFile
         THEN EndTurn(s, "rejected")
         ELSE /\ pc' = [pc EXCEPT ![s] = "provision"]
              /\ log' = log
    /\ UNCHANGED <<messages, vector_index, uploaded_file, prompt, result, cache, lock,
                   local, modelDir, net, canLoad, tmpfs, nextId, fsOps, turns>>

\* ---------------------------------------------------------------- load_models
\* Line 112: st.cache_resource holds an entry for load_models.  The parameter
\* _api_key starts with an underscore and is not part of the key.
CacheHit_Never == FALSE

CacheHit == cache.set

\* Line 164 on a cache hit: the stored return value is handed back.
LoadModelsHit(s) ==
    /\ pc[s] = "provision"
    /\ CacheHit
    /\ result' = [result EXCEPT ![s] = [llm |-> cache.llm, embed |-> cache.embed,
                                        error |-> cache.error]]
    /\ pc' = [pc EXCEPT ![s] = "check"]
    /\ log' = [log EXCEPT ![s].calls = @ \cup {"load_models"},
                          ![s].envOk = EnvHealthy,
                          ![s].hitAfterOk = (cache.error = "")]
    /\ UNCHANGED <<messages, vector_index, uploaded_file, prompt, cache, lock, local,
                   modelDir, net, canLoad, tmpfs, nextId, fsOps, turns>>

\* Line 164 on a cache miss: the body runs, one caller at a time.
LoadModelsMiss(s) ==
    /\ pc[s] = "provision"
    /\ ~CacheHit
    /\ lock = "none"
    /\ lock' = s
    /\ local' = [local EXCEPT ![s] = NoLocal]
    /\ pc' = [pc EXCEPT ![s] = "groq"]
    /\ log' = [log EXCEPT ![s].calls = @ \cup {"load_models"},
                          ![s].envOk = EnvHealthy,
                          ![s].ranBody = TRUE,
                          ![s].ops = <<>>]
    /\ UNCHANGED <<messages, vector_index, uploaded_file, prompt, result, cache,
                   modelDir, net, canLoad, tmpfs, nextId, fsOps, turns>>

\* Line 116: the Groq handle is built in memory.
LM_Groq(s) ==
    /\ pc[s] = "groq"
    /\ nextId' = nextId + 1
    /\ local' = [local EXCEPT ![s].llm = nextId + 1]
    /\ pc' = [pc EXCEPT ![s] = "exists"]
    /\ UNCHANGED <<messages, vector_index, uploaded_file, prompt, result, cache, lock,
                   modelDir, net, canLoad, tmpfs, fsOps, turns, log>>

\* Line 123: the directory is downloaded only when it does not exist.
LM_Exists(s) ==
    /\ pc[s] = "exists"
    /\ IF modelDir.exists
         THEN /\ pc' = [pc EXCEPT ![s] = "load1"]
              /\ log' = [log EXCEPT ![s].dir0 = TRUE]
              /\ UNCHANGED <<local, fsOps>>
         ELSE /\ pc' = [pc EXCEPT ![s] = "dl1"]
              /\ log' = [log EXCEPT ![s].dir0 = FALSE,
                                    ![s].ops = Append(@, "download")]
              /\ local' = [local EXCEPT ![s].todo = 1]
              /\ fsOps' = fsOps + 1
    /\ UNCHANGED <<messages, vector_index, uploaded_file, prompt, result, cache, lock,
                   modelDir, net, canLoad, tmpfs, nextId, turns>>

\* Lines 124 and 131: snapshot_download writes the snapshot file by file and
\* raises when the hub cannot be reached.
LM_Download(s) ==
    /\ pc[s] \in {"dl1", "dl2"}
    /\ IF ~net
         THEN /\ local' = [local EXCEPT ![s].error = "download failed"]
              /\ pc' = [pc EXCEPT ![s] = "ret"]
              /\ UNCHANGED modelDir
         ELSE /\ modelDir' = [exists |-> TRUE,
                              files |-> modelDir.files \cup {SnapshotFiles[local[s].todo]}]
              /\ IF local[s].todo = Len(SnapshotFiles)
                   THEN /\ pc' = [pc EXCEPT ![s] = IF pc[s] = "dl1" THEN "load1" ELSE "load2"]
                        /\ local' = [local EXCEPT ![s].todo = 0]
                   ELSE /\ local' = [local EXCEPT ![s].todo = @ + 1]
                        /\ UNCHANGED pc
    /\ UNCHANGED <<messages, vector_index, uploaded_file, prompt, result, cache, lock,
                   net, canLoad, tmpfs, nextId, fsOps, turns, log>>

\* HuggingFaceEmbedding(model_name=model_path) succeeds on a complete snapshot.
LoadOk == modelDir.exists /\ modelDir.files = AllSnapshotFiles /\ canLoad

\* Lines 126-128: the first load; a failure enters the except branch.
LM_Load1(s) ==
    /\ pc[s] = "load1"
    /\ log' = [log EXCEPT ![s].ops = Append(@, "load")]
    /\ IF LoadOk
         THEN /\ local' = [local EXCEPT ![s].embed = nextId + 1]
              /\ nextId' = nextId + 1
              /\ pc' = [pc EXCEPT ![s] = "ret"]
         ELSE /\ pc' = [pc EXCEPT ![s] = "rmtree"]
              /\ UNCHANGED <<local, nextId>>
    /\ UNCHANGED <<messages, vector_index, uploaded_file, prompt, result, cache, lock,
                   modelDir, net, canLoad, tmpfs, fsOps, turns>>

\* Lines 129-131: delete the directory if it exists, then start the re-download.
LM_Rmtree(s) ==
    /\ pc[s] = "rmtree"
    /\ modelDir' = Absent
    /\ log' = [log EXCEPT ![s].ops =
                 IF modelDir.exists THEN @ \o <<"rmtree", "download">>
                                    ELSE Append(@, "download")]
    /\ fsOps' = fsOps + (IF modelDir.exists THEN 2 ELSE 1)
    /\ local' = [local EXCEPT ![s].todo = 1]
    /\ pc' = [pc EXCEPT ![s] = "dl2"]
    /\ UNCHANGED <<messages, vector_index, uploaded_file, prompt, result, cache, lock,
                   net, canLoad, tmpfs, nextId, turns>>

\* Line 132: the retried load; a failure propagates to the outer except.
LM_Load2_RetryAgain(s) ==
    /\ pc[s] = "load2"
    /\ log' = [log EXCEPT ![s].ops = Append(@, "load")]
    /\ IF LoadOk
         THEN /\ local' = [local EXCEPT ![s].embed = nextId + 1]
              /\ nextId' = nextId + 1
              /\ pc' = [pc EXCEPT ![s] = "ret"]
         ELSE /\ pc' = [pc EXCEPT ![s] = "rmtree"]
              /\ UNCHANGED <<local, nextId>>
    /\ UNCHANGED <<messages, vector_index, uploaded_file, prompt, result, cache, lock,
                   modelDir, net, canLoad, tmpfs, fsOps, turns>>

LM_Load2(s) ==
    /\ pc[s] = "load2"
    /\ log' = [log EXCEPT ![s].ops = Append(@, "load")]
    /\ IF LoadOk
         THEN /\ local' = [local EXCEPT ![s].embed = nextId + 1]
              /\ nextId' = nextId + 1
         ELSE /\ local' = [local EXCEPT ![s].error = "load failed"]
              /\ UNCHANGED nextId
    /\ pc' = [pc EXCEPT ![s] = "ret"]
    /\ UNCHANGED <<messages, vector_index, uploaded_file, prompt, result, cache, lock,
                   modelDir, net, canLoad, tmpfs, fsOps, turns>>

\* Lines 134 and 136: the value load_models returns.
ReturnValue(s) ==
    IF local[s].error = ""
      THEN [llm |-> local[s].llm, embed |-> local[s].embed, error |-> ""]
      ELSE [llm |-> 0, embed |-> 0, error |-> local[s].error]

\* The body returns; st.cache_resource stores whatever it returned.
LM_Return(s) ==
    /\ pc[s] = "ret"
    /\ result' = [result EXCEPT ![s] = ReturnValue(s)]
    /\ cache' = [set |-> TRUE, llm |-> ReturnValue(s).llm,
                 embed |-> ReturnValue(s).embed, error |-> ReturnValue(s).error]
    /\ lock' = IF lock = s THEN "none" ELSE lock
    /\ pc' = [pc EXCEPT ![s] = "check"]
    /\ UNCHANGED <<messages, vector_index, uploaded_file, prompt, local, modelDir,
                   net, canLoad, tmpfs, nextId, fsOps, turns, log>>

\* Lines 166-171: an error message stops the turn.
CheckError(s) ==
    /\ pc[s] = "check"
    /\ IF result[s].error # ""
         THEN EndTurn(s, "prov_failed")
         ELSE /\ pc' = [pc EXCEPT ![s] = "index"]
              /\ log' = log
    /\ UNCHANGED <<messages, vector_index, uploaded_file, prompt, result, cache, lock,
                   local, modelDir, net, canLoad, tmpfs, nextId, fsOps, turns>>

\* ---------------------------------------------------------------- index_document
\* Line 175: index only when the session holds no vector_index.
NeedsIndex_Always(s) == TRUE

NeedsIndex_OnFileChange(s) == vector_index[s] = NoIndex \/ vector_index[s] # uploaded_file[s]

NeedsIndex(s) == vector_index[s] = NoIndex

\* The temporary directory of the running index_document call of session s.
TempDir(s) == <<s, log[s].indexCalls>>

\* Lines 175-177 and 139: the gate, and on a miss the entry into
\* index_document, which creates a fresh temporary directory.
IndexGate(s) ==
    /\ pc[s] = "index"
    /\ IF NeedsIndex(s)
         THEN /\ pc' = [pc EXCEPT ![s] = "idx_write"]
              /\ log' = [log EXCEPT ![s].indexCalls = @ + 1,
                                    ![s].calls = @ \cup {"index_document"}]
              /\ tmpfs' = tmpfs \cup {[dir |-> <<s, log[s].indexCalls + 1>>, files |-> {}]}
         ELSE /\ pc' = [pc EXCEPT ![s] = "query"]
              /\ log' = [log EXCEPT ![s].idxQ = vector_index[s]]
              /\ UNCHANGED tmpfs
    /\ UNCHANGED <<messages, vector_index, uploaded_file, prompt, result, cache, lock,
                   local, modelDir, net, canLoad, nextId, fsOps, turns>>

\* Lines 140-142: the upload is written into the temporary directory.
IdxWrite(s) ==
    /\ pc[s] = "idx_write"
    /\ \E ok \in BOOLEAN :
         IF ok
           THEN /\ tmpfs' = (tmpfs \ {[dir |-> TempDir(s), files |-> {}]})
                              \cup {[dir |-> TempDir(s), files |-> {uploaded_file[s]}]}
                /\ pc' = [pc EXCEPT ![s] = "idx_read"]
           ELSE /\ pc' = [pc EXCEPT ![s] = "idx_raise"]
                /\ UNCHANGED tmpfs
    /\ UNCHANGED <<messages, vector_index, uploaded_file, prompt, result, cache, lock,
                   local, modelDir, net, canLoad, nextId, fsOps, turns, log>>

\* Lines 144-146: the documents are read and the index is built.
IdxBuild(s) ==
    /\ pc[s] = "idx_read"
    /\ \E ok \in BOOLEAN :
         pc' = [pc EXCEPT ![s] = IF ok THEN "idx_return" ELSE "idx_raise"]
    /\ UNCHANGED <<messages, vector_index, uploaded_file, prompt, result, cache, lock,
                   local, modelDir, net, canLoad, tmpfs, nextId, fsOps, turns, log>>

\* Line 139: leaving the with block removes the temporary directory and all
\* it holds, on return and on exception alike.
TempDirCleanup_OnReturnOnly(s, raised) ==
    IF raised THEN tmpfs ELSE {d \in tmpfs : d.dir # TempDir(s)}

TempDirCleanup(s, raised) == {d \in tmpfs : d.dir # TempDir(s)}

\* Lines 185-186: the handler of the try block reports and ends the turn.
OnProcessingError_DropsIndex(s, outcome) ==
    /\ EndTurn(s, outcome)
    /\ vector_index' = [vector_index EXCEPT ![s] = NoIndex]
    /\ UNCHANGED messages

OnProcessingError(s, outcome) ==
    /\ EndTurn(s, outcome)
    /\ UNCHANGED <<messages, vector_index>>

\* Lines 147 and 177: index_document returns and the index is stored.
IdxReturn(s) ==
    /\ pc[s] = "idx_return"
    /\ tmpfs' = TempDirCleanup(s, FALSE)
    /\ vector_index' = [vector_index EXCEPT ![s] = uploaded_file[s]]
    /\ pc' = [pc EXCEPT ![s] = "query"]
    /\ log' = [log EXCEPT ![s].indexOk = @ + 1, ![s].idxQ = uploaded_file[s]]
    /\ UNCHANGED <<messages, uploaded_file, prompt, result, cache, lock, local,
                   modelDir, net, canLoad, nextId, fsOps, turns>>

\* index_document raises: the with block is left and the handler runs.
IdxRaise(s) ==
    /\ pc[s] = "idx_raise"
    /\ tmpfs' = TempDirCleanup(s, TRUE)
    /\ OnProcessingError(s, "index_failed")
    /\ UNCHANGED <<uploaded_file, prompt, result, cache, lock, local, modelDir, net,
                   canLoad, nextId, fsOps, turns>>

\* ---------------------------------------------------------------- query
\* Line 183: the answer is appended to the history.
AppendAnswer_Twice(s) ==
    messages' = [messages EXCEPT ![s] =
                   @ \o <<AssistantMsg(prompt[s], vector_index[s]),
                          AssistantMsg(prompt[s], vector_index[s])>>]

AppendAnswer(s) ==
    messages' = [messages EXCEPT ![s] = Append(@, AssistantMsg(prompt[s], vector_index[s]))]

\* Lines 179-183: the query engine answers from the session's index, or raises.
Query(s) ==
    /\ pc[s] = "query"
    /\ \E ok \in BOOLEAN :
         IF ok
           THEN /\ AppendAnswer(s)
                /\ EndTurn(s, "answered")
                /\ UNCHANGED vector_index
           ELSE OnProcessingError(s, "query_failed")
    /\ UNCHANGED <<uploaded_file, prompt, result, cache, lock, local, modelDir, net,
                   canLoad, tmpfs, nextId, fsOps, turns>>

\* ---------------------------------------------------------------- specification
Next ==
    \/ EnvChange
    \/ \E s \in Sessions :
         \/ \E f \in Files \cup {NoFile} : Submit(s, f)
         \/ Validate(s)
         \/ LoadModelsHit(s)
         \/ LoadModelsMiss(s)
         \/ LM_Groq(s)
         \/ LM_Exists(s)
         \/ LM_Download(s)
         \/ LM_Load1(s)
         \/ LM_Rmtree(s)
         \/ LM_Load2(s)
         \/ LM_Return(s)
         \/ CheckError(s)
         \/ IndexGate(s)
         \/ IdxWrite(s)
         \/ IdxBuild(s)
         \/ IdxReturn(s)
         \/ IdxRaise(s)
         \/ Query(s)

Spec == Init /\ [][Next]_vars

\* ---------------------------------------------------------------- the provisioning race
\* Two sessions have both entered the body of load_models for their first
\* question, before any cache entry or model directory exists, with nothing
\* serialising them.
RaceInit ==
    /\ messages = [s \in Sessions |-> <<Greeting, UserMsg(1)>>]
    /\ vector_index = [s \in Sessions |-> NoIndex]
    /\ uploaded_file = [s \in Sessions |-> "a.pdf"]
    /\ pc = [s \in Sessions |-> "groq"]
    /\ prompt = [s \in Sessions |-> 1]
    /\ result = [s \in Sessions |-> NoResult]
    /\ cache = EmptyCache
    /\ lock = "none"
    /\ local = [s \in Sessions |-> NoLocal]
    /\ modelDir = Absent
    /\ net \in BOOLEAN
    /\ canLoad \in BOOLEAN
    /\ tmpfs = {}
    /\ nextId = 0
    /\ fsOps = 0
    /\ turns = Cardinality(Sessions)
    /\ log = [s \in Sessions |->
                [NewLog EXCEPT !.n = 1, !.calls = {"load_models"}, !.ranBody = TRUE,
                               !.envOk = (net /\ canLoad), !.msgs0 = <<Greeting>>,
                               !.outcome = "running"]]

RaceNext ==
    \/ EnvChange
    \/ \E s \in Sessions :
         \/ LM_Groq(s)
         \/ LM_Exists(s)
         \/ LM_Download(s)
         \/ LM_Load1(s)
         \/ LM_Rmtree(s)
         \/ LM_Load2(s)
         \/ LM_Return(s)

RaceSpec == RaceInit /\ [][RaceNext]_vars

\* ---------------------------------------------------------------- helpers of the properties
IndexPcs == {"idx_write", "idx_read", "idx_return", "idx_raise"}

\* The turn of session s has finished.
TurnOver(s) == pc[s] = "idle" /\ log[s].n >= 1

\* Every turn of session s so far has been answered.
AllAnswered(s) ==
    TurnOver(s) /\ log[s].outcome = "answered" /\ log[s].past \subseteq {"answered"}

Count(seq, x) == Cardinality({i \in 1..Len(seq) : seq[i] = x})

\* The operations a load_models body may perform, by whether the directory
\* existed at line 123 and by whether the call returns handles.
OkTraces(existed) ==
    IF existed
      THEN {<<"load">>, <<"load", "rmtree", "download", "load">>}
      ELSE {<<"download", "load">>,
            <<"download", "load", "rmtree", "download", "load">>}

ErrTraces(existed) ==
    IF existed
      THEN {<<"load", "rmtree", "download">>,
            <<"load", "rmtree", "download", "load">>}
      ELSE {<<"download">>,
            <<"download", "load", "rmtree", "download">>,
            <<"download", "load", "rmtree", "download", "load">>}

\* ---------------------------------------------------------------- C1
\* C1 (as stated): within one session index_document is invoked at most once,
\* whatever the outcome of each turn.
C1_AtMostOneIndexCall ==
    \A s \in Sessions : log[s].indexCalls <= 1

\* C1 (amended): index_document is invoked only while the session holds no
\* index, at most one invocation per session succeeds, and once an index is
\* held no later question invokes it again; an invocation that raised is
\* followed by another one on the next question.
C1_IndexOnlyWhileAbsent ==
    /\ [](\A s \in Sessions :
            /\ log[s].indexOk <= 1
            /\ (pc[s] \in IndexPcs => vector_index[s] = NoIndex)
            /\ (vector_index[s] # NoIndex => log[s].indexOk = 1))
    /\ [][\A s \in Sessions :
            log'[s].indexCalls # log[s].indexCalls => vector_index[s] = NoIndex]_vars

\* A first indexing call raised, the second succeeded, a third question reused the index.
C1_Witness ==
    \E s \in Sessions :
        /\ TurnOver(s) /\ log[s].outcome = "answered"
        /\ log[s].indexCalls = 2 /\ log[s].indexOk = 1
        /\ "index_document" \notin log[s].calls

\* ---------------------------------------------------------------- C2
\* C2 (as stated): after N successful turns in a fresh session the history
\* holds exactly 2N entries alternating user, assistant.
C2_Exactly2N ==
    \A s \in Sessions :
        AllAnswered(s) =>
            /\ Len(messages[s]) = 2 * log[s].n
            /\ \A k \in 1..log[s].n :
                 /\ messages[s][2 * k - 1] = UserMsg(k)
                 /\ messages[s][2 * k].role = "assistant"

\* C2 (amended): after N successful turns in a fresh session the history holds
\* the opening assistant greeting followed by exactly 2N entries alternating
\* user, assistant, in submission order (2N + 1 entries in all).
C2_GreetingThen2N ==
    \A s \in Sessions :
        AllAnswered(s) =>
            /\ Len(messages[s]) = 2 * log[s].n + 1
            /\ messages[s][1] = Greeting
            /\ \A k \in 1..log[s].n :
                 /\ messages[s][2 * k] = UserMsg(k)
                 /\ messages[s][2 * k + 1].role = "assistant"
                 /\ messages[s][2 * k + 1].q = k

C2_Witness ==
    \E s \in Sessions : AllAnswered(s) /\ log[s].n >= 2

\* ---------------------------------------------------------------- C3
\* C3: a provisioning failure is fatal only for its turn: in a later turn,
\* with the environment healthy during the whole load_models call, the call
\* returns handles.
C3_ProvisioningFailureNotSticky ==
    \A s \in Sessions :
        (pc[s] = "check" /\ log[s].envOk /\ "prov_failed" \in log[s].past)
            => result[s].error = ""

\* ---------------------------------------------------------------- C4
\* C4: when the query engine raises, the turn ends with the question as the
\* last history entry, no assistant entry for it, and the index the query ran
\* against still held; a later turn that is answered appends its user and
\* assistant entries.
C4_QueryFailureIsolated ==
    \A s \in Sessions :
        /\ (TurnOver(s) /\ log[s].outcome = "query_failed") =>
              /\ messages[s] = Append(log[s].msgs0, UserMsg(prompt[s]))
              /\ log[s].idxQ # NoIndex
              /\ vector_index[s] = log[s].idxQ
        /\ (TurnOver(s) /\ log[s].outcome = "answered" /\ "query_failed" \in log[s].past) =>
              messages[s] = log[s].msgs0 \o
                  <<UserMsg(prompt[s]), AssistantMsg(prompt[s], vector_index[s])>>

C4_Witness ==
    \E s \in Sessions :
        TurnOver(s) /\ log[s].outcome = "answered" /\ "query_failed" \in log[s].past

\* ---------------------------------------------------------------- C5
\* C5: a question submitted with no file uploaded invokes neither
\* provisioning nor indexing nor querying; the turn appends the question,
\* is rejected, and leaves the index and the earlier history as they were.
C5_ValidationGate ==
    \A s \in Sessions :
        (uploaded_file[s] = NoFile /\ log[s].n >= 1) =>
            /\ pc[s] \in {"validate", "idle"}
            /\ log[s].calls = {}
            /\ messages[s] = Append(log[s].msgs0, UserMsg(prompt[s]))
            /\ vector_index[s] = log[s].idx0
            /\ (pc[s] = "idle" => log[s].outcome = "rejected")

\* A question is rejected in a session that already holds an index.
C5_Witness ==
    \E s \in Sessions :
        TurnOver(s) /\ log[s].outcome = "rejected" /\ vector_index[s] # NoIndex

C7_SelfHealingRetryOnce ==
    \A s \in Sessions :
        /\ Count(log[s].ops, "load") <= 2
        /\ Count(log[s].ops, "download") <= 2
        /\ Count(log[s].ops, "rmtree") <= 1
        /\ (pc[s] = "check" /\ log[s].ranBody) =>
              IF result[s].error = ""
                THEN /\ log[s].ops \in OkTraces(log[s].dir0)
                     /\ result[s].llm # 0 /\ result[s].embed # 0
                ELSE /\ log[s].ops \in ErrTraces(log[s].dir0)
                     /\ result[s].llm = 0 /\ result[s].embed = 0

\* The directory existed, the first load failed, and the retry succeeded.
C7_Witness ==
    \E s \in Sessions :
        /\ pc[s] = "check" /\ log[s].ranBody
        /\ log[s].ops = <<"load", "rmtree", "download", "load">>
        /\ result[s].error = ""

\* ---------------------------------------------------------------- C8
\* C8: once load_models has returned handles, every later call returns the
\* same two handles and nothing is downloaded, deleted or constructed again.
C8_MemoisedProvisioning ==
    [][(cache.set /\ cache.error = "") =>
          /\ cache' = cache
          /\ nextId' = nextId
          /\ fsOps' = fsOps
          /\ modelDir' = modelDir
          /\ \A s \in Sessions :
               (pc[s] = "provision" /\ pc'[s] # "provision") =>
                   /\ pc'[s] = "check"
                   /\ result'[s] = [llm |-> cache.llm, embed |-> cache.embed, error |-> ""]]_vars

\* Both sessions were served the same handles from the cache.
C8_Witness ==
    \E s, u \in Sessions :
        /\ s # u
        /\ log[s].hitAfterOk /\ log[u].hitAfterOk
        /\ result[s] = result[u]
        /\ result[s].llm # 0 /\ result[s].embed # 0

\* ---------------------------------------------------------------- C9
\* C9: a temporary directory exists only while the index_document call that
\* created it is running; after the call returned or raised, neither the
\* directory nor the file written into it remains.
C9_TempDirScoped ==
    \A d \in tmpfs :
        /\ pc[d.dir[1]] \in IndexPcs
        /\ d.dir = TempDir(d.dir[1])

\* One call of the session raised and one returned, and both are over.
C9_Witness ==
    \E s \in Sessions :
        /\ log[s].indexCalls = 2 /\ log[s].indexOk = 1
        /\ pc[s] \notin IndexPcs

====
